---------------------------- MODULE Spec2Model ----------------------------
(***************************************************************************)
(* Model of src/chunks/firehose/flags.rs: the FirehoseFlags word and       *)
(* FirehoseFormatters::firehose_formatter_flags, the decoder of the        *)
(* formatter-location fields that follow a firehose flag word.             *)
(*                                                                         *)
(* A byte buffer is a sequence of integers 0..255.  A u16 is an integer    *)
(* 0..65535.  A u128 does not fit TLC's integers, so it is held as its 32  *)
(* base-16 digits, most significant first.                                 *)
(***************************************************************************)
EXTENDS Integers, Sequences, TLC

VARIABLES raw_flags, input, pc, ret, log

vars == <<raw_flags, input, pc, ret, log>>

---------------------------------------------------------------------------
(* Bounds of the checked inputs *)

\* flag words 0..MaxRaw are enumerated (bits 0x1 .. 0x20), plus the tests' words
MaxRaw == 63
\* longest generated buffer
MaxLen == 18
\* number of leading bytes of a generated buffer drawn freely from ByteVals
HeadLen == 2

\* largest value of the u16 wrapped by FirehoseFlags
U16Max == 65535

---------------------------------------------------------------------------
(* Integer helpers *)

RECURSIVE BitAnd(_, _)
\* a & b on non-negative integers
BitAnd(a, b) ==
    IF a = 0 \/ b = 0 THEN 0
    ELSE (a % 2) * (b % 2) + 2 * BitAnd(a \div 2, b \div 2)

Min(a, b) == IF a < b THEN a ELSE b

Drop(s, n) == SubSeq(s, n + 1, Len(s))

Take(s, n) == SubSeq(s, 1, Min(n, Len(s)))

---------------------------------------------------------------------------
(* FirehoseFlags *)

ACTIVITY_ID_CURRENT == 1
PRIVATE_STRING_RANGE == 256
MESSAGE_STRINGS_UUID == 2
SUBSYSTEM == 512
HAS_RULES == 1024
DATA_REF == 2048
HAS_NAME == 32768

FLAGS_CHECK == 14
LARGE_SHARED_CACHE == 12
LARGE_OFFSET == 32
ABSOLUTE == 8
MAIN_EXE == 2
SHARED_CACHE == 4
UUID_RELATIVE == 10

has_flag(self, flag_mask) == BitAnd(self, flag_mask) # 0

has_current_aid(self) == has_flag(self, ACTIVITY_ID_CURRENT)
has_private_string(self) == has_flag(self, PRIVATE_STRING_RANGE)

\* has_message_strings_uuid testing the neighbouring constant ACTIVITY_ID_CURRENT
has_message_strings_uuid_aid(self) == has_flag(self, ACTIVITY_ID_CURRENT)

has_message_strings_uuid(self) == has_flag(self, MESSAGE_STRINGS_UUID)

has_subsystem(self) == has_flag(self, SUBSYSTEM)
has_rules(self) == has_flag(self, HAS_RULES)
has_data_ref(self) == has_flag(self, DATA_REF)
has_name(self) == has_flag(self, HAS_NAME)

flags(self) == BitAnd(self, FLAGS_CHECK)

\* is_large_offset testing the bit on the unmasked word
is_large_offset_unmasked(self) == has_flag(self, LARGE_OFFSET)

is_large_offset(self) == flags(self) = LARGE_OFFSET

has_large_offset(self) == has_flag(self, LARGE_OFFSET)
is_large_shared_cache(self) == flags(self) = LARGE_SHARED_CACHE
has_large_shared_cache(self) == has_flag(self, LARGE_SHARED_CACHE)

\* is_absolute as a bit test (has_absolute) instead of an equality
is_absolute_unmasked(self) == has_flag(self, ABSOLUTE)

is_absolute(self) == flags(self) = ABSOLUTE

has_absolute(self) == has_flag(self, ABSOLUTE)

\* is_main_exe as a bit test (has_main_exe) instead of an equality
is_main_exe_unmasked(self) == has_flag(self, MAIN_EXE)

is_main_exe(self) == flags(self) = MAIN_EXE

has_main_exe(self) == has_flag(self, MAIN_EXE)
is_shared_cache(self) == flags(self) = SHARED_CACHE
has_shared_cache(self) == has_flag(self, SHARED_CACHE)

\* is_uuid_relative as a bit test (has_uuid_relative) instead of an equality
is_uuid_relative_unmasked(self) == has_flag(self, UUID_RELATIVE)

is_uuid_relative(self) == flags(self) = UUID_RELATIVE

has_uuid_relative(self) == has_flag(self, UUID_RELATIVE)

---------------------------------------------------------------------------
(* Formatting: "{:X}" *)

HexDigit == <<"0", "1", "2", "3", "4", "5", "6", "7",
              "8", "9", "A", "B", "C", "D", "E", "F">>

RECURSIVE StripZeros(_)
\* the digits of a number without its leading zero digits
StripZeros(digits) ==
    IF digits = <<>> THEN <<>>
    ELSE IF Head(digits) = 0 THEN StripZeros(Tail(digits))
    ELSE digits

RECURSIVE HexString(_)
HexString(digits) ==
    IF digits = <<>> THEN "" ELSE HexDigit[Head(digits) + 1] \o HexString(Tail(digits))

\* format!("{:X}", n) of an unsigned integer given by its base-16 digits:
\* uppercase, no padding, no leading zeros, "0" for zero
UpperHex(digits) ==
    LET d == StripZeros(digits)
    IN IF d = <<>> THEN "0" ELSE HexString(d)

\* the four base-16 digits of a u16
U16Digits(n) == <<n \div 4096, (n \div 256) % 16, (n \div 16) % 16, n % 16>>

\* impl Debug for FirehoseFlags
FirehoseFlagsDebug(self) == UpperHex(U16Digits(self))

---------------------------------------------------------------------------
(* nom::number::complete *)

EofError(i) == [tag |-> "Error", code |-> "Eof", input |-> i]

\* le_u16 reading the bytes in big-endian order (be_u16)
le_u16_big_endian(i) ==
    IF Len(i) < 2 THEN [ok |-> FALSE, err |-> EofError(i)]
    ELSE [ok |-> TRUE, rest |-> Drop(i, 2), value |-> 256 * i[1] + i[2]]

\* le_u16 accepting a single byte as the low byte
le_u16_lenient(i) ==
    IF Len(i) = 0 THEN [ok |-> FALSE, err |-> EofError(i)]
    ELSE IF Len(i) = 1 THEN [ok |-> TRUE, rest |-> <<>>, value |-> i[1]]
    ELSE [ok |-> TRUE, rest |-> Drop(i, 2), value |-> i[1] + 256 * i[2]]

\* le_u16 taking four bytes (le_u32) and keeping the low half
le_u16_wide(i) ==
    IF Len(i) < 4 THEN [ok |-> FALSE, err |-> EofError(i)]
    ELSE [ok |-> TRUE, rest |-> Drop(i, 4), value |-> i[1] + 256 * i[2]]

\* a little-endian u16, or Err(Err::Error(.., ErrorKind::Eof)) on fewer than 2 bytes
le_u16(i) ==
    IF Len(i) < 2 THEN [ok |-> FALSE, err |-> EofError(i)]
    ELSE [ok |-> TRUE, rest |-> Drop(i, 2), value |-> i[1] + 256 * i[2]]

RECURSIVE Nibbles(_)
\* the base-16 digits of the big-endian number held in the bytes
Nibbles(bytes) ==
    IF bytes = <<>> THEN <<>>
    ELSE <<Head(bytes) \div 16, Head(bytes) % 16>> \o Nibbles(Tail(bytes))

\* a big-endian u128, or Err(Err::Error(.., ErrorKind::Eof)) on fewer than 16 bytes
be_u128(i) ==
    IF Len(i) < 16 THEN [ok |-> FALSE, err |-> EofError(i)]
    ELSE [ok |-> TRUE, rest |-> Drop(i, 16), value |-> Nibbles(Take(i, 16))]

---------------------------------------------------------------------------
(* FirehoseFormatters *)

\* FirehoseFormatters::default()
FirehoseFormattersDefault ==
    [main_exe |-> FALSE, shared_cache |-> FALSE, has_large_offset |-> 0,
     large_shared_cache |-> 0, absolute |-> FALSE, uuid_relative |-> "",
     main_plugin |-> FALSE, pc_style |-> FALSE, main_exe_alt_index |-> 0]

Ok(i, f, l) == [ret |-> [tag |-> "Ok", input |-> i, formatter_flags |-> f], log |-> l]

\* the `?` on a failed parser: the function returns the parser's error
Err(e, l) == [ret |-> e, log |-> l]

\* if flags.is_large_offset() { .. }
branch_large_offset(i, self, f) ==
    LET l1 == <<"Firehose flag: has_large_offset">>
        p1 == le_u16(i)
    IN IF ~p1.ok THEN Err(p1.err, l1)
       ELSE LET f1 == [f EXCEPT !.has_large_offset = p1.value]
            IN IF has_large_shared_cache(self)
               THEN LET l2 == Append(l1, "Firehose flag: large_shared_cache and has_large_offset")
                        p2 == le_u16(p1.rest)
                    IN IF ~p2.ok THEN Err(p2.err, l2)
                       ELSE Ok(p2.rest, [f1 EXCEPT !.large_shared_cache = p2.value], l2)
               ELSE Ok(p1.rest, f1, l1)

\* else if flags.is_large_shared_cache() { .. }
branch_large_shared_cache(i, self, f) ==
    LET l1 == <<"Firehose flag: large_shared_cache">>
        p1 == IF has_large_offset(self) THEN le_u16(i)
              ELSE [ok |-> TRUE, rest |-> i, value |-> f.has_large_offset]
    IN IF ~p1.ok THEN Err(p1.err, l1)
       ELSE LET f1 == [f EXCEPT !.has_large_offset = p1.value]
                p2 == le_u16(p1.rest)
            IN IF ~p2.ok THEN Err(p2.err, l1)
               ELSE Ok(p2.rest, [f1 EXCEPT !.large_shared_cache = p2.value], l1)

\* else if flags.is_absolute() { .. }
branch_absolute(i, self, f) ==
    LET l1 == <<"Firehose flag: absolute">>
        f1 == [f EXCEPT !.absolute = TRUE]
    IN IF ~has_message_strings_uuid(self)
       THEN LET l2 == Append(l1, "Firehose flag: alt index absolute flag")
                p1 == le_u16(i)
            IN IF ~p1.ok THEN Err(p1.err, l2)
               ELSE Ok(p1.rest, [f1 EXCEPT !.main_exe_alt_index = p1.value], l2)
       ELSE Ok(i, f1, l1)

\* else if flags.is_main_exe() { .. }
branch_main_exe(i, self, f) ==
    Ok(i, [f EXCEPT !.main_exe = TRUE], <<"Firehose flag: main_exe">>)

\* else if flags.is_shared_cache() { .. }
branch_shared_cache(i, self, f) ==
    LET l1 == <<"Firehose flag: shared_cache">>
        f1 == [f EXCEPT !.shared_cache = TRUE]
    IN IF has_large_offset(self)
       THEN LET p1 == le_u16(i)
            IN IF ~p1.ok THEN Err(p1.err, l1)
               ELSE Ok(p1.rest, [f1 EXCEPT !.has_large_offset = p1.value], l1)
       ELSE Ok(i, f1, l1)

\* else if flags.is_uuid_relative() { .. }
branch_uuid_relative(i, self, f) ==
    LET l1 == <<"Firehose flag: uuid_relative">>
        p1 == be_u128(i)
    IN IF ~p1.ok THEN Err(p1.err, l1)
       ELSE Ok(p1.rest, [f EXCEPT !.uuid_relative = UpperHex(p1.value)], l1)

\* else { error!(..); debug!(..); return Err(nom::Err::Incomplete(Needed::Unknown)) }
branch_unknown(i, self, f) ==
    Err([tag |-> "Incomplete", needed |-> "Unknown"],
        <<"Unknown Firehose formatter flag: " \o FirehoseFlagsDebug(self),
          "Firehose data">>)

\* FirehoseFormatters::firehose_formatter_flags(input, flags)
firehose_formatter_flags(i, self) ==
    LET formatter_flags == FirehoseFormattersDefault
    IN IF is_large_offset(self) THEN branch_large_offset(i, self, formatter_flags)
       ELSE IF is_large_shared_cache(self) THEN branch_large_shared_cache(i, self, formatter_flags)
       ELSE IF is_absolute(self) THEN branch_absolute(i, self, formatter_flags)
       ELSE IF is_main_exe(self) THEN branch_main_exe(i, self, formatter_flags)
       ELSE IF is_shared_cache(self) THEN branch_shared_cache(i, self, formatter_flags)
       ELSE IF is_uuid_relative(self) THEN branch_uuid_relative(i, self, formatter_flags)
       ELSE branch_unknown(i, self, formatter_flags)

---------------------------------------------------------------------------
(* Inputs *)

\* test_firehose_formatter_flags_has_large_offset
test_data_has_large_offset ==
    <<1, 0, 2, 0, 14, 0, 34, 2, 0, 4, 135, 16, 0, 0, 34, 4, 0, 0, 5, 0, 100, 101, 110, 121, 0>>

\* test_firehose_formatter_flags_message_strings_uuid_message_alt_index
test_data_alt_index == <<8, 0, 17, 166, 251, 2, 128, 255, 0, 0>>

\* test_firehose_formatter_flags_message_strings_uuid
test_data_message_strings_uuid == <<186, 0, 0, 0>>

\* test_firehose_formatter_flags_absolute_message_alt_uuid (its first bytes)
test_data_absolute == <<128, 255, 2, 13, 34, 4, 0, 0, 6, 0, 34, 4, 6, 0, 11, 0, 34, 4, 17, 0>>

\* test_firehose_formatter_flags_uuid_relative
test_data_uuid_relative ==
    <<123, 13, 55, 117, 241, 144, 62, 33, 186, 19, 4, 71, 196, 27, 135, 67, 0, 0>>

TestData == {test_data_has_large_offset, test_data_alt_index,
             test_data_message_strings_uuid, test_data_absolute,
             test_data_uuid_relative}

\* the flag words of the tests: 557, 8, 514, 516, 0xa
TestFlags == {557, 8, 514, 516, 10}

ByteVals == {0, 1, 16, 255}

\* the bytes after the free head: all zero, or a ramp of distinct non-zero bytes
Fill(kind, k) == IF kind = "zero" THEN 0 ELSE (17 * k + 3) % 256

Stream(h, kind, n) ==
    [k \in 1..n |-> IF k <= Len(h) THEN h[k] ELSE Fill(kind, k)]

Buffers ==
    TestData \cup
    { Stream(h, kind, n) : h \in [1..HeadLen -> ByteVals], kind \in {"zero", "ramp"},
                           n \in 0..MaxLen }

RawWords == (0..MaxRaw) \cup TestFlags

\* buffers for the run over every 16-bit word: empty, one byte, and 18 bytes
WordBuffers == { Take(test_data_uuid_relative, n) : n \in {0, 1, 18} }

---------------------------------------------------------------------------
(* The state machine: one call of firehose_formatter_flags *)

NoRet == [tag |-> "None"]

Init ==
    /\ raw_flags \in RawWords
    /\ input \in Buffers
    /\ pc = "call"
    /\ ret = NoRet
    /\ log = <<>>

InitWords ==
    /\ raw_flags \in 0..U16Max
    /\ input \in WordBuffers
    /\ pc = "call"
    /\ ret = NoRet
    /\ log = <<>>

Decode ==
    /\ pc = "call"
    /\ LET r == firehose_formatter_flags(input, raw_flags)
       IN /\ ret' = r.ret
          /\ log' = r.log
    /\ pc' = "done"
    /\ UNCHANGED <<raw_flags, input>>

Next == Decode

Spec == Init /\ [][Next]_vars

SpecWords == InitWords /\ [][Next]_vars

TypeOK ==
    /\ raw_flags \in 0..U16Max
    /\ pc \in {"call", "done"}
    /\ ret.tag \in {"None", "Ok", "Error", "Incomplete"}
    /\ (pc = "call") = (ret.tag = "None")

---------------------------------------------------------------------------
(* Properties.  They read the flag word arithmetically, not through the   *)
(* accessors of FirehoseFlags.                                             *)

\* bits 1..3 of the word, in place: raw & 0x000E
SubCode(w) == ((w \div 2) % 8) * 2

\* bit 0x20 of the word
Bit20(w) == (w \div 32) % 2 = 1

\* bit 0x2 of the word
Bit2(w) == (w \div 2) % 2 = 1

KnownSubCodes == {2, 4, 8, 10, 12}

\* the fixed size in bytes of the branch a flag word selects
BranchSize(w) ==
    CASE SubCode(w) = 2 -> 0
      [] SubCode(w) = 4 -> IF Bit20(w) THEN 2 ELSE 0
      [] SubCode(w) = 8 -> 2
      [] SubCode(w) = 12 -> IF Bit20(w) THEN 4 ELSE 2
      [] SubCode(w) = 10 -> 16
      [] OTHER -> -1

Done == pc = "done"

Succeeded == pc = "done" /\ ret.tag = "Ok"

\* bytes of the caller's buffer that the returned buffer no longer holds
Consumed == Len(input) - Len(ret.input)

LeU16At(k) == input[k] + 256 * input[k + 1]

\* C1: on success the returned buffer is the input without a prefix whose
\* length is the fixed size of the branch the flag word selects (0; 0 or 2;
\* 2; 2 or 4; 16), never more than 18 bytes, and the rest is unchanged.
C1_ConsumedIsBranchSize ==
    Succeeded =>
        /\ SubCode(raw_flags) \in KnownSubCodes
        /\ Consumed = BranchSize(raw_flags)
        /\ Consumed <= 18
        /\ ret.input = Drop(input, Consumed)

C1_Witness ==
    /\ Succeeded
    /\ SubCode(raw_flags) = 12
    /\ Consumed = 4
    /\ Len(ret.input) > 0
    /\ ret.input = Drop(input, 4)

\* C2: a flag word whose sub-code is 0x0, 0x6 or 0xE fails, for every buffer,
\* with a hard parse failure that is not the need-more-bytes outcome.
C2_UnknownIsHardFailure ==
    (Done /\ SubCode(raw_flags) \notin KnownSubCodes) =>
        ret.tag \notin {"Ok", "Incomplete"}

\* C3: a known sub-code with a buffer shorter than its branch needs ends in
\* the truncated-input error (Eof), carrying no FormatterFields value, and
\* the failing parser was handed bytes of the buffer only.
C3_TruncatedInput ==
    (Done /\ SubCode(raw_flags) \in KnownSubCodes /\ Len(input) < BranchSize(raw_flags)) =>
        /\ ret.tag = "Error"
        /\ ret.code = "Eof"
        /\ DOMAIN ret = {"tag", "code", "input"}
        /\ \E n \in 0..Len(input) : ret.input = Drop(input, n)

\* the buffer runs out between the two u16 of the large-shared-cache branch
C3_Witness ==
    /\ Done
    /\ SubCode(raw_flags) = 12
    /\ Bit20(raw_flags)
    /\ Len(input) = 3
    /\ ret = [tag |-> "Error", code |-> "Eof", input |-> <<input[3]>>]

\* the 32 uppercase hexadecimal digits of the first 16 bytes, in input order
FixedHex16 == HexString(Nibbles(Take(input, 16)))

\* C4: with sub-code 0xA and at least 16 bytes, uuid_relative is the first 16
\* bytes as exactly 32 uppercase hexadecimal characters, two per byte.
C4_UuidIsFixedWidth ==
    (Done /\ SubCode(raw_flags) = 10 /\ Len(input) >= 16) =>
        /\ ret.tag = "Ok"
        /\ Len(ret.formatter_flags.uuid_relative) = 32
        /\ ret.formatter_flags.uuid_relative = FixedHex16

\* C5: with sub-code 0xC, bit 0x20 set puts the first little-endian u16 in
\* large_offset and the second in large_shared_cache (4 bytes); bit 0x20
\* clear puts the first u16 in large_shared_cache and leaves large_offset 0.
C5_LargeSharedCache ==
    (Done /\ SubCode(raw_flags) = 12) =>
        IF Bit20(raw_flags)
        THEN Len(input) >= 4 =>
                /\ ret.tag = "Ok"
                /\ ret.formatter_flags.has_large_offset = LeU16At(1)
                /\ ret.formatter_flags.large_shared_cache = LeU16At(3)
                /\ Consumed = 4
        ELSE Len(input) >= 2 =>
                /\ ret.tag = "Ok"
                /\ ret.formatter_flags.has_large_offset = 0
                /\ ret.formatter_flags.large_shared_cache = LeU16At(1)
                /\ Consumed = 2

\* test_firehose_formatter_flags_has_large_offset
C5_Witness ==
    /\ Succeeded
    /\ raw_flags = 557
    /\ input = test_data_has_large_offset
    /\ ret.formatter_flags.has_large_offset = 1
    /\ ret.formatter_flags.large_shared_cache = 2

\* C6: with sub-code 0x8 a successful decode sets absolute, and reads one
\* little-endian u16 into main_exe_alt_index exactly when bit 0x2 is clear;
\* with bit 0x2 set it reads nothing and main_exe_alt_index stays 0.
C6_Absolute ==
    (Done /\ SubCode(raw_flags) = 8) =>
        IF ~Bit2(raw_flags)
        THEN Len(input) >= 2 =>
                /\ ret.tag = "Ok"
                /\ ret.formatter_flags.absolute = TRUE
                /\ ret.formatter_flags.main_exe_alt_index = LeU16At(1)
                /\ Consumed = 2
        ELSE /\ ret.tag = "Ok"
             /\ ret.formatter_flags.absolute = TRUE
             /\ ret.formatter_flags.main_exe_alt_index = 0
             /\ Consumed = 0

\* test_firehose_formatter_flags_absolute_message_alt_uuid, with bit 0x1 set
C6_Witness ==
    /\ Succeeded
    /\ raw_flags = 9
    /\ input = test_data_absolute
    /\ ret.formatter_flags.absolute = TRUE
    /\ ret.formatter_flags.main_exe_alt_index = 65408

Count(b) == IF b THEN 1 ELSE 0

\* how many of the five is_<variant> predicates hold of the flag word
VariantsTrue ==
    Count(is_main_exe(raw_flags)) + Count(is_shared_cache(raw_flags))
    + Count(is_absolute(raw_flags)) + Count(is_uuid_relative(raw_flags))
    + Count(is_large_shared_cache(raw_flags))

\* C7: flags() is raw & 0x000E; each is_<variant> holds iff flags() is that
\* variant's constant (0x2, 0x4, 0x8, 0xA, 0xC); at most one of them holds.
C7_SubCodePredicates ==
    /\ flags(raw_flags) = SubCode(raw_flags)
    /\ is_main_exe(raw_flags) = (SubCode(raw_flags) = 2)
    /\ is_shared_cache(raw_flags) = (SubCode(raw_flags) = 4)
    /\ is_absolute(raw_flags) = (SubCode(raw_flags) = 8)
    /\ is_uuid_relative(raw_flags) = (SubCode(raw_flags) = 10)
    /\ is_large_shared_cache(raw_flags) = (SubCode(raw_flags) = 12)
    /\ VariantsTrue <= 1

\* a word with bits set all around the sub-code, decoded as main-executable
C7_Witness ==
    /\ Succeeded
    /\ raw_flags = 65523
    /\ is_main_exe(raw_flags)
    /\ ret.formatter_flags.main_exe = TRUE

\* C8: is_large_offset() is false for every word, the first branch is never
\* taken, large_offset is filled only under bit 0x20 in the shared-cache and
\* large-shared-cache branches, and a word with bit 0x20 and sub-code 0x2,
\* 0x8 or 0xA leaves large_offset 0 and consumes nothing for it.
C8_LargeOffsetBranchDead ==
    /\ ~is_large_offset(raw_flags)
    /\ Done => log[1] # "Firehose flag: has_large_offset"
    /\ Succeeded =>
        /\ ret.formatter_flags.has_large_offset # 0 =>
              (Bit20(raw_flags) /\ SubCode(raw_flags) \in {4, 12})
        /\ (Bit20(raw_flags) /\ SubCode(raw_flags) \in {2, 8, 10}) =>
              /\ ret.formatter_flags.has_large_offset = 0
              /\ Consumed = (CASE SubCode(raw_flags) = 2 -> 0
                               [] SubCode(raw_flags) = 8 -> 2
                               [] SubCode(raw_flags) = 10 -> 16)

\* bit 0x20 with the absolute sub-code: the two bytes go to the alternate index
C8_Witness ==
    /\ Succeeded
    /\ raw_flags = 40
    /\ Len(input) = 18
    /\ ret.formatter_flags.has_large_offset = 0
    /\ ret.formatter_flags.main_exe_alt_index # 0
    /\ Consumed = 2

\* C9: in a successful result the fields outside the selected branch keep
\* their defaults: at most one of main_exe, shared_cache, absolute is true,
\* main_exe_alt_index is non-zero only with absolute, uuid_relative non-empty
\* only with sub-code 0xA, large_shared_cache non-zero only with sub-code
\* 0xC, and main_plugin and pc_style are always false.
C9_OtherFieldsDefault ==
    Succeeded =>
        LET f == ret.formatter_flags
            c == SubCode(raw_flags)
        IN /\ f.main_exe = (c = 2)
           /\ f.shared_cache = (c = 4)
           /\ f.absolute = (c = 8)
           /\ Count(f.main_exe) + Count(f.shared_cache) + Count(f.absolute) <= 1
           /\ f.main_exe_alt_index # 0 => f.absolute
           /\ f.uuid_relative # "" => c = 10
           /\ f.large_shared_cache # 0 => c = 12
           /\ f.has_large_offset # 0 => c \in {4, 12}
           /\ f.main_plugin = FALSE
           /\ f.pc_style = FALSE
           /\ DOMAIN f = DOMAIN FirehoseFormattersDefault

\* test_firehose_formatter_flags_uuid_relative: only uuid_relative is filled
C9_Witness ==
    /\ Succeeded
    /\ raw_flags = 10
    /\ input = test_data_uuid_relative
    /\ ret.formatter_flags =
         [main_exe |-> FALSE, shared_cache |-> FALSE, has_large_offset |-> 0,
          large_shared_cache |-> 0, absolute |-> FALSE,
          uuid_relative |-> "7B0D3775F1903E21BA130447C41B8743",
          main_plugin |-> FALSE, pc_style |-> FALSE, main_exe_alt_index |-> 0]

\* C10: is_absolute() implies has_message_strings_uuid() is false, so the
\* absolute branch always reads exactly 2 bytes into main_exe_alt_index, and
\* fails on a buffer of fewer than 2 bytes; it never skips the index.
C10_AbsoluteAlwaysReadsIndex ==
    /\ is_absolute(raw_flags) => ~has_message_strings_uuid(raw_flags)
    /\ (Done /\ SubCode(raw_flags) = 8) =>
          /\ log = <<"Firehose flag: absolute", "Firehose flag: alt index absolute flag">>
          /\ IF Len(input) >= 2 THEN ret.tag = "Ok" /\ Consumed = 2
             ELSE ret.tag = "Error"
    /\ (Succeeded /\ ret.formatter_flags.absolute) =>
          /\ Consumed = 2
          /\ ret.formatter_flags.main_exe_alt_index = LeU16At(1)
          /\ Len(log) = 2

\* an absolute word with a one-byte buffer fails
C10_Witness ==
    /\ Done
    /\ is_absolute(raw_flags)
    /\ has_current_aid(raw_flags)
    /\ Len(input) = 1
    /\ ret.tag = "Error"

=============================================================================
